---- MODULE Spec2Model ----
(***************************************************************************)
(* Dynamic route optimisation: the graph store (GraphProvider), the        *)
(* traffic simulation and the three path searches (dijkstra, astar,        *)
(* bellmanFord).                                                           *)
(*                                                                         *)
(* Numbers.  Weights and distances are JavaScript numbers with at most two *)
(* decimals; they are held as integers in hundredths (1 km = 100).         *)
(* Infinity and NaN are two sentinels outside the range of every finite    *)
(* value of the model; a read of a missing Map key (undefined) is NaN in   *)
(* every numeric use the code makes of it (+, <, ||).                      *)
(*                                                                         *)
(* Locations.  Nodes lie on one meridian; a location is the position along *)
(* it in hundredths of a km, so the great-circle distance of two nodes is  *)
(* the absolute difference of their locations.                             *)
(***************************************************************************)
EXTENDS Integers, Sequences, FiniteSets, TLC

VARIABLES
  nodes,          \* graph.nodes
  edges,          \* graph.edges
  adjacencyList,  \* graph.adjacencyList
  intervalEdges,  \* graph.edges as the interval callback of the traffic effect sees it
  thrown,         \* the error the last store operation raised, "none" if it returned
  result,         \* the outcome of the last route request on the current graph
  nearest,        \* the outcome of the last nearest-node lookup on the current graph
  snapshot,       \* a graph value a consumer obtained from the store earlier
  shared          \* the fields of snapshot whose array or Map the current graph still holds

vars == <<nodes, edges, adjacencyList, intervalEdges, thrown, result,
          nearest, snapshot, shared>>

-----------------------------------------------------------------------------
(* Bounds *)

\* searches: the number of edges of the graphs searched
MaxEdges == 2
\* store: caps on the lengths of the node and edge lists, grid points of a rebuild
StoreNodes == 2
StoreEdges == 2
GridPoints == 1
\* nearest-node lookup: the length of the node list
LookupNodes == 3
\* traffic: the number of edges the simulation is applied to
TrafficEdges == 2

-----------------------------------------------------------------------------
(* JavaScript values *)

Infinity == 1000000
NaN == -1000000
Null == "null"

\* a + b
Plus(a, b) ==
  IF a = NaN \/ b = NaN THEN NaN
  ELSE IF a = Infinity \/ b = Infinity THEN Infinity
  ELSE a + b

\* a < b
Less(a, b) == a # NaN /\ b # NaN /\ a < b

\* Math.round(x * 1.2) for x in hundredths: round(12 x / 1000), halves up
RoundTimes12(x) ==
  IF x = Infinity THEN Infinity ELSE (12 * x + 500) \div 1000

\* m.get(k) on a Map of numbers
NumGet(m, k) == IF k \in DOMAIN m THEN m[k] ELSE NaN

\* x || Infinity
OrInfinity(x) == IF x = NaN \/ x = 0 THEN Infinity ELSE x

\* x || 0
OrZero(x) == IF x = NaN THEN 0 ELSE x

Abs(x) == IF x < 0 THEN 0 - x ELSE x

-----------------------------------------------------------------------------
(* Graph store: the adjacency index *)

NodeIdsOf(ns) == {ns[i].id : i \in DOMAIN ns}

ReverseEdge(e) == [e EXCEPT !.from = e.to, !.to = e.from]

RECURSIVE AdjAddEdges(_, _)
AdjAddEdges(adj, es) ==
  IF es = <<>> THEN adj
  ELSE LET e == Head(es)
           keys == DOMAIN adj \cup {e.from, e.to}
           a1 == [k \in keys |-> IF k \in DOMAIN adj THEN adj[k] ELSE <<>>]
           a2 == [a1 EXCEPT ![e.from] = Append(@, e)]
           a3 == [a2 EXCEPT ![e.to] = Append(@, ReverseEdge(e))]
       IN AdjAddEdges(a3, Tail(es))

buildAdjacencyList(ns, es) ==
  AdjAddEdges([k \in NodeIdsOf(ns) |-> <<>>], es)

\* graph.adjacencyList.get(k) || []
AdjGet(adj, k) == IF k \in DOMAIN adj THEN adj[k] ELSE <<>>

-----------------------------------------------------------------------------
(* PriorityQueue *)

\* mutant: the new item goes before the items of its own priority
RECURSIVE SortedInsertBefore(_, _)
SortedInsertBefore(items, it) ==
  IF items = <<>> THEN <<it>>
  ELSE IF ~Less(Head(items).priority, it.priority)
       THEN <<it>> \o items
       ELSE <<Head(items)>> \o SortedInsertBefore(Tail(items), it)

\* items.push({node, priority}); items.sort((a, b) => a.priority - b.priority)
\* the array is sorted before the push and the sort is stable: the new item
\* goes behind every item whose priority is not greater than its own
RECURSIVE SortedInsert(_, _)
SortedInsert(items, it) ==
  IF items = <<>> THEN <<it>>
  ELSE IF Less(it.priority, Head(items).priority)
       THEN <<it>> \o items
       ELSE <<Head(items)>> \o SortedInsert(Tail(items), it)

enqueue(items, node, priority) ==
  SortedInsert(items, [node |-> node, priority |-> priority])

-----------------------------------------------------------------------------
(* Path reconstruction and result, shared by the three searches *)

\* let current = end; while (current !== null) { path.unshift(current);
\* current = previous.get(current)! }
\* The loop ends only when the chain of previous entries reaches null.  A key
\* missing from the Map reads undefined, and undefined reads undefined again:
\* the loop never ends.  A chain longer than the number of keys repeats a key:
\* the loop never ends.
\* mutant: path.push(current) in place of path.unshift(current)
RECURSIVE WalkPush(_, _, _, _)
WalkPush(previous, current, path, fuel) ==
  IF current = Null THEN [ends |-> TRUE, path |-> path]
  ELSE IF current \notin DOMAIN previous \/ fuel = 0
       THEN [ends |-> FALSE, path |-> <<>>]
       ELSE WalkPush(previous, previous[current], Append(path, current), fuel - 1)

RECURSIVE Walk(_, _, _, _)
Walk(previous, current, path, fuel) ==
  IF current = Null THEN [ends |-> TRUE, path |-> path]
  ELSE IF current \notin DOMAIN previous \/ fuel = 0
       THEN [ends |-> FALSE, path |-> <<>>]
       ELSE Walk(previous, previous[current], <<current>> \o path, fuel - 1)

reconstructPath(previous, end) ==
  Walk(previous, end, <<>>, Cardinality(DOMAIN previous))

Diverges == [status |-> "diverges"]

PathResult(previous, distances, end, visitedNodes, algorithm) ==
  LET w == reconstructPath(previous, end)
      d == NumGet(distances, end)
  IN IF ~w.ends THEN Diverges
     ELSE [status |-> "returned",
           path |-> IF Len(w.path) > 1 THEN w.path ELSE <<>>,
           totalDistance |-> OrInfinity(d),
           estimatedTime |-> RoundTimes12(OrZero(d)),
           visitedNodes |-> visitedNodes,
           algorithm |-> algorithm]

-----------------------------------------------------------------------------
(* dijkstra *)

\* graph.nodes.forEach: distances.set(id, id === start ? 0 : Infinity);
\* previous.set(id, null)
InitDistances(graph, start) ==
  [id \in NodeIdsOf(graph.nodes) |-> IF id = start THEN 0 ELSE Infinity]

InitPrevious(graph) == [id \in NodeIdsOf(graph.nodes) |-> Null]

\* mutant: the blocked test is missing
NeverSkipped(edge) == FALSE

\* if (edge.isBlocked) continue;
IsSkipped(edge) == edge.isBlocked

\* for (const edge of neighbors) { ... }
RECURSIVE DijkstraRelax(_, _, _)
DijkstraRelax(neighbors, currentNode, st) ==
  IF neighbors = <<>> THEN st
  ELSE LET edge == Head(neighbors)
           neighbor == edge.to
           newDistance == Plus(NumGet(st.distances, currentNode), edge.currentWeight)
       IN IF IsSkipped(edge)
          THEN DijkstraRelax(Tail(neighbors), currentNode, st)
          ELSE IF Less(newDistance, NumGet(st.distances, neighbor))
               THEN DijkstraRelax(Tail(neighbors), currentNode,
                      [st EXCEPT
                         !.distances = [k \in DOMAIN @ \cup {neighbor} |->
                                          IF k = neighbor THEN newDistance ELSE @[k]],
                         !.previous = [k \in DOMAIN @ \cup {neighbor} |->
                                          IF k = neighbor THEN currentNode ELSE @[k]],
                         !.pq = enqueue(@, neighbor, newDistance)])
               ELSE DijkstraRelax(Tail(neighbors), currentNode, st)

\* while (!pq.isEmpty()) { ... }
RECURSIVE DijkstraLoop(_, _, _)
DijkstraLoop(graph, end, st) ==
  IF st.pq = <<>> THEN st
  ELSE LET currentNode == Head(st.pq).node
           popped == [st EXCEPT !.pq = Tail(@)]
       IN IF currentNode \in st.visited
          THEN DijkstraLoop(graph, end, popped)
          ELSE LET settled == [popped EXCEPT
                                 !.visited = @ \cup {currentNode},
                                 !.visitedNodes = Append(@, currentNode),
                                 !.settledAt =
                                    Append(@, NumGet(st.distances, currentNode))]
               IN IF currentNode = end THEN settled
                  ELSE DijkstraLoop(graph, end,
                         DijkstraRelax(AdjGet(graph.adjacencyList, currentNode),
                                       currentNode, settled))

\* the maps, the visited set and the queue when the loop has ended; settledAt
\* records distances.get(currentNode) at each visitedNodes.push(currentNode)
DijkstraRun(graph, start, end) ==
  DijkstraLoop(graph, end,
    [distances |-> InitDistances(graph, start),
     previous |-> InitPrevious(graph),
     visited |-> {},
     visitedNodes |-> <<>>,
     settledAt |-> <<>>,
     pq |-> enqueue(<<>>, start, 0)])

dijkstra(graph, start, end) ==
  LET st == DijkstraRun(graph, start, end)
  IN PathResult(st.previous, st.distances, end, st.visitedNodes, "Dijkstra")

-----------------------------------------------------------------------------
(* astar *)

LocationOf(ns, id) ==
  LET i == CHOOSE j \in DOMAIN ns : ns[j].id = id /\ \A k \in 1..(j - 1) : ns[k].id # id
  IN ns[i].location

\* graph.nodes.find(n => n.id === nodeId); 0 when either node is missing,
\* else the great-circle distance of the two locations
getHeuristic(graph, nodeId, end) ==
  IF nodeId \notin NodeIdsOf(graph.nodes) \/ end \notin NodeIdsOf(graph.nodes)
  THEN 0
  ELSE Abs(LocationOf(graph.nodes, end) - LocationOf(graph.nodes, nodeId))

InitFScore(graph, start, end) ==
  [id \in NodeIdsOf(graph.nodes) |->
     IF id = start THEN getHeuristic(graph, start, end) ELSE Infinity]

\* mutant: the frontier is keyed by the heuristic alone
FScoreGreedy(tentativeGScore, h) == h

\* fScore.set(neighbor, tentativeGScore + getHeuristic(neighbor))
FScoreOf(tentativeGScore, h) == Plus(tentativeGScore, h)

RECURSIVE AstarRelax(_, _, _, _, _)
AstarRelax(graph, end, neighbors, currentNode, st) ==
  IF neighbors = <<>> THEN st
  ELSE LET edge == Head(neighbors)
           neighbor == edge.to
           tentativeGScore == Plus(NumGet(st.gScore, currentNode), edge.currentWeight)
           f == FScoreOf(tentativeGScore, getHeuristic(graph, neighbor, end))
       IN IF IsSkipped(edge)
          THEN AstarRelax(graph, end, Tail(neighbors), currentNode, st)
          ELSE IF Less(tentativeGScore, NumGet(st.gScore, neighbor))
               THEN AstarRelax(graph, end, Tail(neighbors), currentNode,
                      [st EXCEPT
                         !.previous = [k \in DOMAIN @ \cup {neighbor} |->
                                          IF k = neighbor THEN currentNode ELSE @[k]],
                         !.gScore = [k \in DOMAIN @ \cup {neighbor} |->
                                          IF k = neighbor THEN tentativeGScore ELSE @[k]],
                         !.fScore = [k \in DOMAIN @ \cup {neighbor} |->
                                          IF k = neighbor THEN f ELSE @[k]],
                         !.pq = enqueue(@, neighbor, f)])
               ELSE AstarRelax(graph, end, Tail(neighbors), currentNode, st)

RECURSIVE AstarLoop(_, _, _)
AstarLoop(graph, end, st) ==
  IF st.pq = <<>> THEN st
  ELSE LET currentNode == Head(st.pq).node
           popped == [st EXCEPT !.pq = Tail(@)]
       IN IF currentNode \in st.visited
          THEN AstarLoop(graph, end, popped)
          ELSE LET settled == [popped EXCEPT
                                 !.visited = @ \cup {currentNode},
                                 !.visitedNodes = Append(@, currentNode)]
               IN IF currentNode = end THEN settled
                  ELSE AstarLoop(graph, end,
                         AstarRelax(graph, end,
                                    AdjGet(graph.adjacencyList, currentNode),
                                    currentNode, settled))

astar(graph, start, end) ==
  LET fs == InitFScore(graph, start, end)
      st == AstarLoop(graph, end,
              [gScore |-> InitDistances(graph, start),
               fScore |-> fs,
               previous |-> InitPrevious(graph),
               visited |-> {},
               visitedNodes |-> <<>>,
               pq |-> enqueue(<<>>, start, NumGet(fs, start))])
  IN PathResult(st.previous, st.gScore, end, st.visitedNodes, "A*")

-----------------------------------------------------------------------------
(* bellmanFord *)

\* mutant: the node is pushed at every improvement
NeverIncluded(visitedNodes, id) == FALSE

\* visitedNodes.includes(edge.to)
Includes(visitedNodes, id) == \E i \in DOMAIN visitedNodes : visitedNodes[i] = id

\* for (const edge of graph.edges) { if (edge.isBlocked) continue; ... };
\* improved records edge.to at each distances.set(edge.to, ...)
RECURSIVE BellmanFordPass(_, _)
BellmanFordPass(es, st) ==
  IF es = <<>> THEN st
  ELSE LET edge == Head(es)
           fromDistance == NumGet(st.distances, edge.from)
           toDistance == NumGet(st.distances, edge.to)
           d == Plus(fromDistance, edge.currentWeight)
       IN IF IsSkipped(edge)
          THEN BellmanFordPass(Tail(es), st)
          ELSE IF Less(d, toDistance)
               THEN BellmanFordPass(Tail(es),
                      [st EXCEPT
                         !.distances = [@ EXCEPT ![edge.to] = d],
                         !.previous = [@ EXCEPT ![edge.to] = edge.from],
                         !.improved = Append(@, edge.to),
                         !.visitedNodes =
                            IF Includes(@, edge.to) THEN @ ELSE Append(@, edge.to)])
               ELSE BellmanFordPass(Tail(es), st)

\* for (let i = 0; i < graph.nodes.length - 1; i++)
RECURSIVE BellmanFordPasses(_, _, _)
BellmanFordPasses(graph, i, st) ==
  IF i < Len(graph.nodes) - 1
  THEN BellmanFordPasses(graph, i + 1, BellmanFordPass(graph.edges, st))
  ELSE st

\* the maps and visitedNodes when the passes have ended
BellmanFordRun(graph, start) ==
  BellmanFordPasses(graph, 0,
    [distances |-> InitDistances(graph, start),
     previous |-> InitPrevious(graph),
     improved |-> <<>>,
     visitedNodes |-> <<>>])

bellmanFord(graph, start, end) ==
  LET st == BellmanFordRun(graph, start)
  IN PathResult(st.previous, st.distances, end, st.visitedNodes, "Bellman-Ford")

-----------------------------------------------------------------------------
(* Traffic simulation *)

IsRushHour(hour) == (hour >= 7 /\ hour <= 9) \/ (hour >= 17 /\ hour <= 19)
IsWeekend(day) == day = 0 \/ day = 6

\* mutant: rush hour weighs every road type alike
BaseMultiplierFlat(edge, day, hour) ==
  IF IsRushHour(hour) /\ ~IsWeekend(day) THEN 1500
  ELSE IF hour >= 10 /\ hour <= 16 /\ ~IsWeekend(day) THEN 1200
  ELSE IF IsWeekend(day) /\ hour >= 12 /\ hour <= 18 THEN 1300
  ELSE 1000

\* trafficMultiplier before the jitter, in thousandths
BaseMultiplier(edge, day, hour) ==
  IF IsRushHour(hour) /\ ~IsWeekend(day)
  THEN (IF edge.roadType = "highway" THEN 1800 ELSE 1500)
  ELSE IF hour >= 10 /\ hour <= 16 /\ ~IsWeekend(day) THEN 1200
  ELSE IF IsWeekend(day) /\ hour >= 12 /\ hour <= 18 THEN 1300
  ELSE 1000

TrafficLevelAt(day, hour) ==
  IF IsRushHour(hour) /\ ~IsWeekend(day) THEN "high"
  ELSE IF hour >= 10 /\ hour <= 16 /\ ~IsWeekend(day) THEN "medium"
  ELSE IF IsWeekend(day) /\ hour >= 12 /\ hour <= 18 THEN "medium"
  ELSE "low"

Max(a, b) == IF a >= b THEN a ELSE b

\* Math.round(baseWeight * Math.max(1, m) * 10) / 10, baseWeight in hundredths,
\* m in thousandths: tenths of a km, halves up, back in hundredths
RoundedWeight(baseWeight, m) ==
  10 * ((baseWeight * Max(1000, m) + 5000) \div 10000)

\* mutant: the adjusted weight is written to baseWeight as well
simulateDrifting(es, day, hour, jitter) ==
  [i \in DOMAIN es |->
     LET w == RoundedWeight(es[i].baseWeight, BaseMultiplier(es[i], day, hour) + jitter[i])
     IN [es[i] EXCEPT !.currentWeight = w, !.baseWeight = w,
                      !.trafficLevel = TrafficLevelAt(day, hour)]]

\* jitter[i] is (Math.random() - 0.5) * 0.3 for the i-th edge, in thousandths
simulateRealTimeTraffic(es, day, hour, jitter) ==
  [i \in DOMAIN es |->
     [es[i] EXCEPT
        !.currentWeight =
           RoundedWeight(es[i].baseWeight, BaseMultiplier(es[i], day, hour) + jitter[i]),
        !.trafficLevel = TrafficLevelAt(day, hour)]]

-----------------------------------------------------------------------------
(* State *)

Graph == [nodes |-> nodes, edges |-> edges, adjacencyList |-> adjacencyList]

IdPool == <<"A", "B", "C", "D", "E", "F">>
EdgeIdPool == <<"e1", "e2", "e3", "e4", "e5", "e6">>

\* Math.round(distance * 10) / 10
RoundTenth(d) == 10 * ((d + 5) \div 10)

\* an edge as buildRealTimeGraph lays it out for two nodes d apart:
\* baseWeight = currentWeight = distance, not blocked, traffic low
NewEdge(id, from, to, d) ==
  [id |-> id, from |-> from, to |-> to,
   distance |-> RoundTenth(d), duration |-> (2 * d + 50) \div 100,
   roadType |-> IF d > 200 THEN "highway" ELSE "street",
   baseWeight |-> RoundTenth(d), currentWeight |-> RoundTenth(d),
   isBlocked |-> FALSE, trafficLevel |-> "low"]

NoResult == [called |-> FALSE]
NoLookup == [looked |-> FALSE]
NoSnapshot == [obtained |-> FALSE]

-----------------------------------------------------------------------------
(* Graph store operations.  Every operation replaces the graph by a new    *)
(* value; the interval callback of the traffic effect keeps the edge list  *)
(* of the render in which graph.nodes last changed (intervalEdges).        *)

\* buildRealTimeGraph: the center and the first GridPoints grid points, laid on
\* the meridian of the center 2.22 km apart (0.02 degrees, the North Point)
GridStep == 222

BuiltNodes ==
  [i \in 1..(GridPoints + 1) |-> [id |-> IdPool[i], location |-> GridStep * (i - 1)]]

\* for i, for j > i: the pairs in loop order
RECURSIVE BuiltPairs(_, _)
BuiltPairs(i, j) ==
  IF i > GridPoints + 1 THEN <<>>
  ELSE IF j > GridPoints + 1 THEN BuiltPairs(i + 1, i + 2)
  ELSE <<<<i, j>>>> \o BuiltPairs(i, j + 1)

BuiltEdges ==
  LET ps == SelectSeq(BuiltPairs(1, 2),
                      LAMBDA p : Abs(BuiltNodes[p[2]].location - BuiltNodes[p[1]].location) < 500)
  IN [k \in DOMAIN ps |->
        NewEdge(EdgeIdPool[k], IdPool[ps[k][1]], IdPool[ps[k][2]],
                Abs(BuiltNodes[ps[k][2]].location - BuiltNodes[ps[k][1]].location))]

\* refreshGraph(center)
RefreshGraph(day, hour, jitter) ==
  LET trafficAwareEdges == simulateRealTimeTraffic(BuiltEdges, day, hour, jitter)
  IN /\ nodes' = BuiltNodes
     /\ edges' = trafficAwareEdges
     /\ adjacencyList' = buildAdjacencyList(BuiltNodes, trafficAwareEdges)
     /\ intervalEdges' = trafficAwareEdges
     /\ result' = NoResult
     /\ thrown' = "none"
     /\ nearest' = NoLookup
     /\ snapshot' = snapshot
     /\ shared' = shared \ {"nodes", "edges", "adjacencyList"}

\* the interval callback: reads graph.edges and graph.nodes of its closure
Tick(day, hour, jitter) ==
  /\ Len(intervalEdges) > 0
  /\ LET updatedEdges == simulateRealTimeTraffic(intervalEdges, day, hour, jitter)
     IN /\ edges' = updatedEdges
        /\ adjacencyList' = buildAdjacencyList(nodes, updatedEdges)
  /\ result' = NoResult
  /\ thrown' = "none"
  /\ nearest' = NoLookup
  /\ snapshot' = snapshot
  /\ shared' = shared \ {"edges", "adjacencyList"}
  /\ UNCHANGED <<nodes, intervalEdges>>

\* updateTraffic(update)
UpdateTraffic(edgeId, newWeight, trafficLevel) ==
  LET updatedEdges == [i \in DOMAIN edges |->
                         IF edges[i].id = edgeId
                         THEN [edges[i] EXCEPT !.currentWeight = newWeight,
                                               !.trafficLevel = trafficLevel]
                         ELSE edges[i]]
  IN /\ edges' = updatedEdges
     /\ adjacencyList' = buildAdjacencyList(nodes, updatedEdges)
     /\ result' = NoResult
     /\ thrown' = "none"
     /\ nearest' = NoLookup
     /\ snapshot' = snapshot
     /\ shared' = shared \ {"edges", "adjacencyList"}
     /\ UNCHANGED <<nodes, intervalEdges>>

\* mutant: the flag is set but the adjacency index is not rebuilt
BlockEdgeStaleIndex(edgeId) ==
  /\ edges' = [i \in DOMAIN edges |->
                 IF edges[i].id = edgeId
                 THEN [edges[i] EXCEPT !.isBlocked = TRUE] ELSE edges[i]]
  /\ result' = NoResult
  /\ thrown' = "none"
  /\ nearest' = NoLookup
  /\ snapshot' = snapshot
  /\ shared' = shared \ {"edges"}
  /\ UNCHANGED <<nodes, adjacencyList, intervalEdges>>

\* mutant: the flag is written to the edge objects of the previous graph value,
\* which a graph value obtained earlier still holds while it shares the edges
BlockEdgeInPlace(edgeId) ==
  LET updatedEdges == [i \in DOMAIN edges |->
                         IF edges[i].id = edgeId
                         THEN [edges[i] EXCEPT !.isBlocked = TRUE] ELSE edges[i]]
  IN /\ edges' = updatedEdges
     /\ adjacencyList' = buildAdjacencyList(nodes, updatedEdges)
     /\ result' = NoResult
     /\ thrown' = "none"
     /\ nearest' = NoLookup
     /\ snapshot' = IF snapshot.obtained /\ "edges" \in shared
                     THEN [snapshot EXCEPT !.edges = updatedEdges] ELSE snapshot
     /\ shared' = shared \ {"adjacencyList"}
     /\ UNCHANGED <<nodes, intervalEdges>>

\* blockEdge(edgeId)
BlockEdge(edgeId) ==
  LET updatedEdges == [i \in DOMAIN edges |->
                         IF edges[i].id = edgeId
                         THEN [edges[i] EXCEPT !.isBlocked = TRUE] ELSE edges[i]]
  IN /\ edges' = updatedEdges
     /\ adjacencyList' = buildAdjacencyList(nodes, updatedEdges)
     /\ result' = NoResult
     /\ thrown' = "none"
     /\ nearest' = NoLookup
     /\ snapshot' = snapshot
     /\ shared' = shared \ {"edges", "adjacencyList"}
     /\ UNCHANGED <<nodes, intervalEdges>>

\* mutant: the flag of every edge is cleared, whatever its id
UnblockEdgeAll(edgeId) ==
  LET updatedEdges == [i \in DOMAIN edges |-> [edges[i] EXCEPT !.isBlocked = FALSE]]
  IN /\ edges' = updatedEdges
     /\ adjacencyList' = buildAdjacencyList(nodes, updatedEdges)
     /\ result' = NoResult
     /\ thrown' = "none"
     /\ nearest' = NoLookup
     /\ snapshot' = snapshot
     /\ shared' = shared \ {"edges", "adjacencyList"}
     /\ UNCHANGED <<nodes, intervalEdges>>

\* unblockEdge(edgeId)
UnblockEdge(edgeId) ==
  LET updatedEdges == [i \in DOMAIN edges |->
                         IF edges[i].id = edgeId
                         THEN [edges[i] EXCEPT !.isBlocked = FALSE] ELSE edges[i]]
  IN /\ edges' = updatedEdges
     /\ adjacencyList' = buildAdjacencyList(nodes, updatedEdges)
     /\ result' = NoResult
     /\ thrown' = "none"
     /\ nearest' = NoLookup
     /\ snapshot' = snapshot
     /\ shared' = shared \ {"edges", "adjacencyList"}
     /\ UNCHANGED <<nodes, intervalEdges>>

\* addNode(node)
AddNode(node) ==
  LET updatedNodes == Append(nodes, node)
  IN /\ nodes' = updatedNodes
     /\ adjacencyList' = buildAdjacencyList(updatedNodes, edges)
     /\ intervalEdges' = edges
     /\ result' = NoResult
     /\ thrown' = "none"
     /\ nearest' = NoLookup
     /\ snapshot' = snapshot
     /\ shared' = shared \ {"nodes", "adjacencyList"}
     /\ UNCHANGED edges

\* addEdge(edge)
AddEdge(edge) ==
  LET updatedEdges == Append(edges, edge)
  IN /\ edges' = updatedEdges
     /\ adjacencyList' = buildAdjacencyList(nodes, updatedEdges)
     /\ result' = NoResult
     /\ thrown' = "none"
     /\ nearest' = NoLookup
     /\ snapshot' = snapshot
     /\ shared' = shared \ {"edges", "adjacencyList"}
     /\ UNCHANGED <<nodes, intervalEdges>>

\* removeNode(nodeId)
RemoveNode(nodeId) ==
  LET updatedNodes == SelectSeq(nodes, LAMBDA n : n.id # nodeId)
      updatedEdges == SelectSeq(edges, LAMBDA e : e.from # nodeId /\ e.to # nodeId)
  IN /\ nodes' = updatedNodes
     /\ edges' = updatedEdges
     /\ adjacencyList' = buildAdjacencyList(updatedNodes, updatedEdges)
     /\ intervalEdges' = updatedEdges
     /\ result' = NoResult
     /\ thrown' = "none"
     /\ nearest' = NoLookup
     /\ snapshot' = snapshot
     /\ shared' = shared \ {"nodes", "edges", "adjacencyList"}

\* mutant: the edge is dropped from the edge list, the adjacency index is kept
RemoveEdgeStaleIndex(edgeId) ==
  LET updatedEdges == SelectSeq(edges, LAMBDA e : e.id # edgeId)
  IN /\ edges' = updatedEdges
     /\ result' = NoResult
     /\ thrown' = "none"
     /\ nearest' = NoLookup
     /\ snapshot' = snapshot
     /\ shared' = shared \ {"edges"}
     /\ UNCHANGED <<nodes, adjacencyList, intervalEdges>>

\* removeEdge(edgeId)
RemoveEdge(edgeId) ==
  LET updatedEdges == SelectSeq(edges, LAMBDA e : e.id # edgeId)
  IN /\ edges' = updatedEdges
     /\ adjacencyList' = buildAdjacencyList(nodes, updatedEdges)
     /\ result' = NoResult
     /\ thrown' = "none"
     /\ nearest' = NoLookup
     /\ snapshot' = snapshot
     /\ shared' = shared \ {"edges", "adjacencyList"}
     /\ UNCHANGED <<nodes, intervalEdges>>

-----------------------------------------------------------------------------
(* Route request *)

Algorithms == {"dijkstra", "astar", "bellman-ford"}

\* switch (algorithm) { case 'astar': ...; case 'bellman-ford': ...; default: ... }
RunAlgorithm(algorithm, graph, start, end) ==
  IF algorithm = "astar" THEN astar(graph, start, end)
  ELSE IF algorithm = "bellman-ford" THEN bellmanFord(graph, start, end)
  ELSE dijkstra(graph, start, end)

\* the PathResult of each selectable algorithm on the graph of the current render
FindPath(start, end) ==
  /\ result' = [called |-> TRUE, start |-> start, end |-> end,
                by |-> [a \in Algorithms |-> RunAlgorithm(a, Graph, start, end)]]
  /\ UNCHANGED <<nodes, edges, adjacencyList, intervalEdges, thrown,
                 nearest, snapshot, shared>>

\* a route request that began on the graph value of an earlier render: after
\* `await getDirections(...)` the handler searches the graph of its closure
CompleteRoute(start, end) ==
  /\ snapshot.obtained
  /\ result' = [called |-> TRUE, start |-> start, end |-> end,
                by |-> [a \in Algorithms |->
                          RunAlgorithm(a, [nodes |-> snapshot.nodes, edges |-> snapshot.edges,
                                           adjacencyList |-> snapshot.adjacencyList],
                                       start, end)]]
  /\ UNCHANGED <<nodes, edges, adjacencyList, intervalEdges, thrown,
                 nearest, snapshot, shared>>

-----------------------------------------------------------------------------
(* Nearest-node lookup of the route planner *)

\* great-circle distance of two points of the meridian
calculateDistance(point1, point2) == Abs(point2 - point1)

\* mutant: a node at the same distance replaces the one found before
CloserOrEqual(distance, minDistance) == distance <= minDistance

\* if (distance < minDistance)
Closer(distance, minDistance) == distance < minDistance

\* for (const node of graph.nodes) { ... }, from the i-th node on
RECURSIVE NearestScan(_, _, _, _, _)
NearestScan(ns, i, location, nearestNode, minDistance) ==
  IF i > Len(ns) THEN nearestNode
  ELSE LET distance == calculateDistance(location, ns[i].location)
       IN IF Closer(distance, minDistance)
          THEN NearestScan(ns, i + 1, location, ns[i], distance)
          ELSE NearestScan(ns, i + 1, location, nearestNode, minDistance)

\* findNearestNode(location): null on an empty node list, else the node found
findNearestNode(ns, location) ==
  IF Len(ns) = 0 THEN [returned |-> "null"]
  ELSE [returned |-> "node",
        node |-> NearestScan(ns, 1, location, ns[1],
                             calculateDistance(location, ns[1].location))]

FindNearestNode(location) ==
  /\ nearest' = [looked |-> TRUE, location |-> location,
                 outcome |-> findNearestNode(nodes, location)]
  /\ UNCHANGED <<nodes, edges, adjacencyList, intervalEdges, thrown, result,
                 snapshot, shared>>

-----------------------------------------------------------------------------
(* The store: inputs of the operations *)

\* node ids known to the callers: the ids of a rebuilt graph and one more
StoreIds == {IdPool[i] : i \in 1..(GridPoints + 2)}
StoreEdgeIds == {EdgeIdPool[i] : i \in 1..StoreEdges}

NodeInputs == {[id |-> IdPool[i], location |-> GridStep * (i - 1)] : i \in 1..(GridPoints + 1)}

\* a chain: edge i leads from the i-th id to the next one
EdgeInputs == {NewEdge(EdgeIdPool[i], IdPool[i], IdPool[i + 1], 100) : i \in 1..StoreEdges}

\* (day, hour) of a tick: weekday rush hour, weekday night
TickTimes == {<<1, 8>>, <<1, 3>>}
\* jitter of a tick, the same for every edge
TickJitters == {0}
UpdateWeights == {-100}

Init ==
  /\ nodes = <<>>
  /\ edges = <<>>
  /\ adjacencyList = <<>>
  /\ intervalEdges = <<>>
  /\ thrown = "none"
  /\ result = NoResult
  /\ nearest = NoLookup
  /\ snapshot = NoSnapshot
  /\ shared = {}

Next ==
  \/ \E t \in TickTimes, j \in TickJitters :
       RefreshGraph(t[1], t[2], [i \in DOMAIN BuiltEdges |-> j])
  \/ \E t \in TickTimes, j \in TickJitters :
       Tick(t[1], t[2], [i \in DOMAIN intervalEdges |-> j])
  \/ \E id \in StoreEdgeIds, w \in UpdateWeights : UpdateTraffic(id, w, "high")
  \/ \E id \in StoreEdgeIds : BlockEdge(id)
  \/ \E id \in StoreEdgeIds : UnblockEdge(id)
  \/ \E n \in NodeInputs : Len(nodes) < StoreNodes /\ AddNode(n)
  \/ \E e \in EdgeInputs : Len(edges) < StoreEdges /\ AddEdge(e)
  \/ \E id \in StoreIds : RemoveNode(id)
  \/ \E id \in StoreEdgeIds : RemoveEdge(id)

Spec == Init /\ [][Next]_vars

-----------------------------------------------------------------------------
(* A graph value held across store operations: a consumer obtains the graph *)
(* built at mount, the store runs on, and a route request that began on the *)
(* obtained value completes.                                                *)

\* the graph values refreshGraph can build at mount
MountGraphs ==
  {LET es == simulateRealTimeTraffic(BuiltEdges, t[1], t[2], [i \in DOMAIN BuiltEdges |-> j])
   IN [nodes |-> BuiltNodes, edges |-> es,
       adjacencyList |-> buildAdjacencyList(BuiltNodes, es)] :
     t \in TickTimes, j \in TickJitters}

SnapshotInit ==
  /\ \E g \in MountGraphs :
       /\ nodes = g.nodes
       /\ edges = g.edges
       /\ adjacencyList = g.adjacencyList
       /\ snapshot = [obtained |-> TRUE, nodes |-> g.nodes, edges |-> g.edges,
                      adjacencyList |-> g.adjacencyList]
  /\ intervalEdges = edges
  /\ thrown = "none"
  /\ result = NoResult
  /\ nearest = NoLookup
  /\ shared = {"nodes", "edges", "adjacencyList"}

\* the operations that run while the value is held: every operation of the
\* store; the first edge is the one updated, blocked and added again, the
\* second node the one added again
SnapshotNext ==
  \/ \E t \in TickTimes, j \in TickJitters :
       RefreshGraph(t[1], t[2], [i \in DOMAIN BuiltEdges |-> j])
  \/ \E t \in TickTimes, j \in TickJitters :
       Tick(t[1], t[2], [i \in DOMAIN intervalEdges |-> j])
  \/ \E w \in UpdateWeights : UpdateTraffic("e1", w, "high")
  \/ BlockEdge("e1")
  \/ UnblockEdge("e1")
  \/ \E n \in NodeInputs : n.id = "B" /\ Len(nodes) < StoreNodes /\ AddNode(n)
  \/ \E e \in EdgeInputs : e.id = "e1" /\ Len(edges) < StoreEdges /\ AddEdge(e)
  \/ \E id \in StoreIds : RemoveNode(id)
  \/ \E id \in StoreEdgeIds : RemoveEdge(id)
  \/ CompleteRoute("A", "B")

SnapshotSpec == SnapshotInit /\ [][SnapshotNext]_vars

-----------------------------------------------------------------------------
(* Searches over bounded graphs: every list of at most MaxEdges edges      *)
(* between the nodes A, B, C, and the scenario graph; edges get blocked and *)
(* nodes removed through the store.                                        *)

NodeIds == {"A", "B", "C"}
EdgeIds == {EdgeIdPool[i] : i \in 1..MaxEdges}

\* edge weights offered to the searches, in hundredths
Weights == {0, 100}

\* node locations: all on one point (heuristic 0), or 1 km apart in list order
Layouts == {0, 100}

\* the node removed from the graphs searched
RemovedIds == {"C"}

EdgeChoices == {c \in NodeIds \X NodeIds \X Weights : c[1] # c[2]}

\* nodes A(0,0), B(0,1), C(1,1), edges A->B (1), B->C (1), A->C (3)
ScenarioNodes ==
  <<[id |-> "A", location |-> 0], [id |-> "B", location |-> 100],
    [id |-> "C", location |-> 200]>>
ScenarioEdges ==
  <<NewEdge("AB", "A", "B", 100), NewEdge("BC", "B", "C", 100),
    NewEdge("AC", "A", "C", 300)>>
ScenarioEdgeIds == {"AB", "BC", "AC"}

SearchInit ==
  /\ \/ \E step \in Layouts, k \in 0..MaxEdges :
          \E cs \in [1..k -> EdgeChoices] :
            /\ nodes = [i \in 1..3 |-> [id |-> IdPool[i], location |-> step * (i - 1)]]
            /\ edges = [i \in 1..k |->
                          NewEdge(EdgeIdPool[i], cs[i][1], cs[i][2], cs[i][3])]
     \/ /\ nodes = ScenarioNodes
        /\ edges = ScenarioEdges
  /\ adjacencyList = buildAdjacencyList(nodes, edges)
  /\ intervalEdges = edges
  /\ thrown = "none"
  /\ result = NoResult
  /\ nearest = NoLookup
  /\ snapshot = NoSnapshot
  /\ shared = {}

SearchNext ==
  \/ \E s \in NodeIds, e \in NodeIds : FindPath(s, e)
  \/ \E id \in EdgeIds \cup ScenarioEdgeIds : BlockEdge(id)
  \/ \E id \in RemovedIds : RemoveNode(id)

SearchSpec == SearchInit /\ [][SearchNext]_vars

-----------------------------------------------------------------------------
(* Traffic on a chain of edges: the interval callback and updateTraffic run *)
(* on edges of any base weight and road type, blocked or not, with route    *)
(* requests in between.                                                     *)

TrafficNodes ==
  [i \in 1..(TrafficEdges + 1) |-> [id |-> IdPool[i], location |-> 100 * (i - 1)]]

\* the edge ids the callers name: the ids of the chain and one more
TrafficEdgeIds == {EdgeIdPool[i] : i \in 1..(TrafficEdges + 1)}

\* baseWeight (hundredths) and roadType of an edge
EdgeKinds == {<<14, "street">>, <<100, "street">>, <<250, "highway">>}

\* (day, hour) read from the clock: weekday rush hour, weekday midday, weekday
\* night, Saturday afternoon, Saturday rush hour
TrafficTimes == {<<1, 8>>, <<1, 12>>, <<1, 3>>, <<6, 13>>, <<6, 8>>}

\* (Math.random() - 0.5) * 0.3 lies in [-0.15, 0.15): its ends, in thousandths
TrafficJitters == {-150, 149}

\* the jitters of the edges of one call: the same end for every edge, or the
\* two ends in turn
JitterVectors(D) ==
  {[i \in D |-> j] : j \in TrafficJitters}
    \cup {[i \in D |-> IF i % 2 = 1 THEN -150 ELSE 149]}

TrafficUpdateWeights == {50}

\* an Edge value with the given base weight, road type and flag
EdgeOfKind(i, kind, isBlocked) ==
  [id |-> EdgeIdPool[i], from |-> IdPool[i], to |-> IdPool[i + 1],
   distance |-> kind[1], duration |-> (2 * kind[1] + 50) \div 100,
   roadType |-> kind[2], baseWeight |-> kind[1], currentWeight |-> kind[1],
   isBlocked |-> isBlocked, trafficLevel |-> "low"]

TrafficInit ==
  /\ nodes = TrafficNodes
  /\ \E k \in 1..TrafficEdges :
       \E ks \in [1..k -> EdgeKinds], bs \in [1..k -> BOOLEAN] :
         edges = [i \in 1..k |-> EdgeOfKind(i, ks[i], bs[i])]
  /\ adjacencyList = buildAdjacencyList(nodes, edges)
  /\ intervalEdges = edges
  /\ thrown = "none"
  /\ result = NoResult
  /\ nearest = NoLookup
  /\ snapshot = NoSnapshot
  /\ shared = {}

TrafficNext ==
  \/ \E t \in TrafficTimes : \E js \in JitterVectors(DOMAIN intervalEdges) :
       Tick(t[1], t[2], js)
  \/ \E id \in TrafficEdgeIds, w \in TrafficUpdateWeights : UpdateTraffic(id, w, "medium")
  \/ FindPath("A", "B")

TrafficSpec == TrafficInit /\ [][TrafficNext]_vars

-----------------------------------------------------------------------------
(* The time brackets: the interval callback runs at every hour of a Sunday, *)
(* a Monday and a Saturday on the chains of TrafficSpec, the random term     *)
(* of the multiplier being zero.                                            *)

\* now.getDay(): Sunday, Monday, Saturday
BracketDays == {0, 1, 6}
\* now.getHours()
BracketHours == 0..23

BracketNext ==
  \E day \in BracketDays, hour \in BracketHours :
    Tick(day, hour, [i \in DOMAIN intervalEdges |-> 0])

BracketSpec == TrafficInit /\ [][BracketNext]_vars

-----------------------------------------------------------------------------
(* Nearest-node lookups on node lists of up to LookupNodes nodes *)

\* the positions of the nodes and of the coordinates looked up, in hundredths
NodeLocations == {0, 100, 200}
LookupLocations == {0, 50, 100}

NearestInit ==
  /\ \E k \in 0..LookupNodes : \E ls \in [1..k -> NodeLocations] :
       nodes = [i \in 1..k |-> [id |-> IdPool[i], location |-> ls[i]]]
  /\ edges = <<>>
  /\ adjacencyList = buildAdjacencyList(nodes, edges)
  /\ intervalEdges = edges
  /\ thrown = "none"
  /\ result = NoResult
  /\ nearest = NoLookup
  /\ snapshot = NoSnapshot
  /\ shared = {}

NearestNext == \E location \in LookupLocations : FindNearestNode(location)

NearestSpec == NearestInit /\ [][NearestNext]_vars

-----------------------------------------------------------------------------
(* The administrator's panel on a mounted graph: a chain of StoreEdges      *)
(* edges; edges are blocked, unblocked, re-weighted, added and removed      *)
(* while the interval callback ticks and routes are requested.              *)

AdminNodes ==
  [i \in 1..(StoreEdges + 1) |-> [id |-> IdPool[i], location |-> 100 * (i - 1)]]

AdminEdges ==
  [i \in 1..StoreEdges |-> NewEdge(EdgeIdPool[i], IdPool[i], IdPool[i + 1], 100)]

\* the edge ids the panel names: the ids of the chain and one more
AdminEdgeIds == {EdgeIdPool[i] : i \in 1..(StoreEdges + 1)}

AdminInit ==
  /\ nodes = AdminNodes
  /\ edges = AdminEdges
  /\ adjacencyList = buildAdjacencyList(nodes, edges)
  /\ intervalEdges = edges
  /\ thrown = "none"
  /\ result = NoResult
  /\ nearest = NoLookup
  /\ snapshot = NoSnapshot
  /\ shared = {}

AdminNext ==
  \/ \E t \in TickTimes, j \in TickJitters :
       Tick(t[1], t[2], [i \in DOMAIN intervalEdges |-> j])
  \/ \E id \in AdminEdgeIds, w \in UpdateWeights : UpdateTraffic(id, w, "high")
  \/ \E id \in AdminEdgeIds : BlockEdge(id)
  \/ \E id \in AdminEdgeIds : UnblockEdge(id)
  \/ \E e \in EdgeInputs : Len(edges) < StoreEdges /\ AddEdge(e)
  \/ \E id \in AdminEdgeIds : RemoveEdge(id)
  \/ FindPath("A", IdPool[StoreEdges + 1])

AdminSpec == AdminInit /\ [][AdminNext]_vars

-----------------------------------------------------------------------------
(* Properties of the searches (SearchSpec) *)

KnownIds == NodeIdsOf(nodes)

\* the node ids a sequence of non-blocked edges leads to from the ids in S
RECURSIVE ReachSet(_, _)
ReachSet(es, S) ==
  LET T == S \cup {es[i].to : i \in {j \in DOMAIN es : ~es[j].isBlocked /\ es[j].from \in S}}
  IN IF T = S THEN S ELSE ReachSet(es, T)

Reachable(start, end) == end \in ReachSet(edges, {start})

NonNegativeWeights == \A i \in DOMAIN edges : edges[i].currentWeight >= 0

AllIncidentBlocked(id) ==
  \A i \in DOMAIN edges : (edges[i].from = id \/ edges[i].to = id) => edges[i].isBlocked

\* the steps open to an algorithm: the non-blocked entries of the adjacency
\* index for dijkstra and astar, the non-blocked edges for bellmanFord
OpenSteps(a) ==
  IF a = "bellman-ford"
  THEN {<<edges[i].from, edges[i].to>> : i \in {j \in DOMAIN edges : ~edges[j].isBlocked}}
  ELSE UNION {{<<adjacencyList[k][i].from, adjacencyList[k][i].to>> :
                  i \in {j \in DOMAIN adjacencyList[k] : ~adjacencyList[k][j].isBlocked}} :
              k \in DOMAIN adjacencyList}

Returned(r) == r.status = "returned"

\* C1: for start and end node ids with end reachable from start over the
\* non-blocked edges, and non-negative weights, the three algorithms return
\* the same totalDistance.
C1_SameTotalDistance ==
  (/\ result.called
   /\ result.start \in KnownIds /\ result.end \in KnownIds
   /\ NonNegativeWeights
   /\ Reachable(result.start, result.end))
  => /\ \A a \in Algorithms : Returned(result.by[a])
     /\ \A a, b \in Algorithms :
          result.by[a].totalDistance = result.by[b].totalDistance

\* C2: when every edge incident to the node end is blocked, each algorithm
\* returns an empty path and totalDistance Infinity; and no returned path or
\* visited node is reached across a blocked edge: every step of a path is a
\* non-blocked step of the structure searched, and every visited node but start
\* has a non-blocked step into it from start or from a node visited before it.
C2_BlockedEdgeExclusion ==
  result.called =>
    \A a \in Algorithms :
      LET r == result.by[a]
      IN /\ (result.end \in KnownIds /\ AllIncidentBlocked(result.end))
              => /\ Returned(r)
                 /\ r.path = <<>>
                 /\ r.totalDistance = Infinity
         /\ Returned(r)
              => /\ \A i \in 1..(Len(r.path) - 1) :
                      <<r.path[i], r.path[i + 1]>> \in OpenSteps(a)
                 /\ \A i \in DOMAIN r.visitedNodes :
                      \/ r.visitedNodes[i] = result.start
                      \/ \E u \in {result.start} \cup {r.visitedNodes[j] : j \in 1..(i - 1)} :
                           <<u, r.visitedNodes[i]>> \in OpenSteps(a)

\* a request from start to another node end, with an edge from start to end,
\* all edges at end blocked
C2_Witness ==
  /\ result.called
  /\ result.start # result.end
  /\ result.start \in KnownIds /\ result.end \in KnownIds
  /\ \E i \in DOMAIN edges : edges[i].from = result.start /\ edges[i].to = result.end
  /\ AllIncidentBlocked(result.end)
  /\ \A a \in Algorithms : Returned(result.by[a]) /\ result.by[a].path = <<>>

\* C3: a request with start = end = s, s a node id, returns path [s] and
\* totalDistance 0 from each algorithm.
C3_StartEqualsEnd ==
  (result.called /\ result.start = result.end /\ result.start \in KnownIds)
  => \A a \in Algorithms :
       /\ Returned(result.by[a])
       /\ result.by[a].path = <<result.start>>
       /\ result.by[a].totalDistance = 0

ScenarioEdgesBlocked ==
  [i \in DOMAIN ScenarioEdges |->
     IF ScenarioEdges[i].id = "BC"
     THEN [ScenarioEdges[i] EXCEPT !.isBlocked = TRUE] ELSE ScenarioEdges[i]]

\* C4: on the scenario graph dijkstra from A to C returns path [A,B,C] with
\* cost 2; after blockEdge on B->C it returns path [A,C] with cost 3.
C4_Scenario ==
  (result.called /\ nodes = ScenarioNodes /\ result.start = "A" /\ result.end = "C")
  => LET r == result.by["dijkstra"]
     IN /\ edges = ScenarioEdges
             => Returned(r) /\ r.path = <<"A", "B", "C">> /\ r.totalDistance = 200
        /\ edges = ScenarioEdgesBlocked
             => Returned(r) /\ r.path = <<"A", "C">> /\ r.totalDistance = 300

\* the request from A to C on the scenario graph after blockEdge on B->C
C4_Witness ==
  /\ result.called
  /\ nodes = ScenarioNodes /\ edges = ScenarioEdgesBlocked
  /\ result.start = "A" /\ result.end = "C"
  /\ result.by["dijkstra"].path = <<"A", "C">>

\* C5: for node ids start # end with no sequence of non-blocked edges from
\* start to end, each algorithm returns an empty path and totalDistance Infinity.
C5_UnreachableEnd ==
  (/\ result.called
   /\ result.start # result.end
   /\ result.start \in KnownIds /\ result.end \in KnownIds
   /\ ~Reachable(result.start, result.end))
  => \A a \in Algorithms :
       /\ Returned(result.by[a])
       /\ result.by[a].path = <<>>
       /\ result.by[a].totalDistance = Infinity

HeuristicIsZero ==
  \A id \in KnownIds : getHeuristic(Graph, id, result.end) = 0

\* C6: when the heuristic is 0 for every node, astar has the outcome of
\* dijkstra: the same path, totalDistance, estimatedTime and visitedNodes.
C6_AstarDegenerate ==
  (result.called /\ HeuristicIsZero)
  => LET a == result.by["astar"]
         d == result.by["dijkstra"]
     IN /\ a.status = d.status
        /\ Returned(d) => /\ a.path = d.path
                          /\ a.totalDistance = d.totalDistance
                          /\ a.estimatedTime = d.estimatedTime
                          /\ a.visitedNodes = d.visitedNodes

\* all nodes on one point, a path over an intermediate node, and a node
\* settled that is not on the path
C6_Witness ==
  /\ result.called
  /\ HeuristicIsZero
  /\ result.end \in KnownIds
  /\ Returned(result.by["astar"])
  /\ Len(result.by["astar"].path) = 3
  /\ result.by["astar"].totalDistance = 200

\* C7: a request whose start or end is not a node id fails with
\* UnknownNodeError in each algorithm.
C7_UnknownNodeError ==
  (result.called /\ (result.start \notin KnownIds \/ result.end \notin KnownIds))
  => \A a \in Algorithms : result.by[a].status = "UnknownNodeError"

\* the least sum of currentWeight over the sequences of at most n non-blocked
\* edges that lead from start to id (Infinity when there is none)
RECURSIVE RefDist(_, _, _)
RefDist(start, id, n) ==
  IF n = 0 THEN (IF id = start THEN 0 ELSE Infinity)
  ELSE LET into == {i \in DOMAIN edges : ~edges[i].isBlocked /\ edges[i].to = id}
           via == {Plus(RefDist(start, edges[i].from, n - 1), edges[i].currentWeight) : i \in into}
           all == via \cup {RefDist(start, id, n - 1)}
       IN CHOOSE d \in all : \A x \in all : d <= x

\* C20: for two node ids start and end with end reachable from start and
\* non-negative weights, the totalDistance of dijkstra is the least sum of
\* currentWeight over the sequences of non-blocked edges from start to end
\* (start = end is the case of C3).
C20_DijkstraShortest ==
  (/\ result.called
   /\ result.start # result.end
   /\ result.start \in KnownIds /\ result.end \in KnownIds
   /\ NonNegativeWeights
   /\ Reachable(result.start, result.end))
  => /\ Returned(result.by["dijkstra"])
     /\ result.by["dijkstra"].totalDistance =
          RefDist(result.start, result.end, Len(edges))

-----------------------------------------------------------------------------
(* Properties of the store (Spec) *)

StoreUnchanged == UNCHANGED <<nodes, edges, adjacencyList>>

References(e, id) == e.from = id \/ e.to = id

\* C8: removeNode(id) leaves no node with that id, no edge and no entry of the
\* adjacency index that references id, and keeps every other node and edge;
\* when no node has that id, nodes and edges are unchanged.
C8_RemoveNode ==
  [][\A id \in StoreIds :
       RemoveNode(id) =>
         /\ id \notin NodeIdsOf(nodes')
         /\ \A i \in DOMAIN edges' : ~References(edges'[i], id)
         /\ id \notin DOMAIN adjacencyList'
         /\ \A k \in DOMAIN adjacencyList' : \A i \in DOMAIN adjacencyList'[k] :
              ~References(adjacencyList'[k][i], id)
         /\ nodes' = SelectSeq(nodes, LAMBDA n : n.id # id)
         /\ edges' = SelectSeq(edges, LAMBDA e : ~References(e, id))
         /\ (id \notin NodeIdsOf(nodes) => nodes' = nodes /\ edges' = edges)]_vars

NodeIdsDistinct ==
  \A i, j \in DOMAIN nodes : i # j => nodes[i].id # nodes[j].id

\* C9: addNode of a node whose id is already the id of a node fails with
\* DuplicateIdError and leaves the store unchanged; node ids are pairwise
\* distinct in every state.
C9_AddNodeDuplicate ==
  [][/\ \A n \in NodeInputs :
          (AddNode(n) /\ n.id \in NodeIdsOf(nodes))
            => thrown' = "DuplicateIdError" /\ StoreUnchanged
     /\ NodeIdsDistinct']_vars

EdgesReferenceNodes ==
  \A i \in DOMAIN edges : edges[i].from \in KnownIds /\ edges[i].to \in KnownIds

\* C10: addEdge of an edge whose from or to is not the id of a node fails with
\* InvalidReferenceError and leaves the store unchanged; every stored edge
\* references two existing nodes in every state.
C10_AddEdgeInvalidReference ==
  [][/\ \A e \in EdgeInputs :
          (AddEdge(e) /\ (e.from \notin NodeIdsOf(nodes) \/ e.to \notin NodeIdsOf(nodes)))
            => thrown' = "InvalidReferenceError" /\ StoreUnchanged
     /\ EdgesReferenceNodes']_vars

\* C12: the adjacency index maps each node id n to exactly the stored edges
\* whose from is n, in edge-list order; an edge contributes nothing to the
\* list of its to node.
C12_AdjacencyOutgoing ==
  /\ DOMAIN adjacencyList = KnownIds
  /\ \A n \in KnownIds :
       adjacencyList[n] = SelectSeq(edges, LAMBDA e : e.from = n)

\* C17: every stored edge has currentWeight >= 0 in every state of the store.
C17_CurrentWeightNonNegative ==
  \A i \in DOMAIN edges : edges[i].currentWeight >= 0

-----------------------------------------------------------------------------
(* Properties of the traffic operations (TrafficSpec) *)

\* C11: updateTraffic with an edge id and a weight leaves the edge with that id
\* with that currentWeight, and fails with NotFoundError when no edge has the id.
C11_UpdateTraffic ==
  [][\A id \in TrafficEdgeIds, w \in TrafficUpdateWeights :
       UpdateTraffic(id, w, "medium") =>
         IF \E i \in DOMAIN edges : edges[i].id = id
         THEN /\ thrown' = "none"
              /\ \A i \in DOMAIN edges' : edges'[i].id = id => edges'[i].currentWeight = w
         ELSE thrown' = "NotFoundError"]_vars

\* the tier of a multiplier bracket
TierOf(m) == IF m >= 1500 THEN "high" ELSE IF m >= 1200 THEN "medium" ELSE "low"

\* C14: after a tick every edge has currentWeight >= baseWeight, for every base
\* weight and jitter, and its trafficLevel is the tier of the time bracket that
\* chose its multiplier.
C14_TickFloor ==
  [][\A t \in TrafficTimes : \A js \in JitterVectors(DOMAIN intervalEdges) :
       Tick(t[1], t[2], js) =>
         \A i \in DOMAIN edges' :
           /\ edges'[i].currentWeight >= edges'[i].baseWeight
           /\ edges'[i].trafficLevel = TierOf(BaseMultiplier(intervalEdges[i], t[1], t[2]))]_vars

\* C15: the weights and levels a tick yields are a function of the edge list it
\* is applied to: they are the same whatever the clock and the random source
\* read during the call.
C15_TickDeterministic ==
  [][\A t \in TrafficTimes : \A js \in JitterVectors(DOMAIN intervalEdges) :
       Tick(t[1], t[2], js) =>
         \A t2 \in TrafficTimes : \A js2 \in JitterVectors(DOMAIN intervalEdges) :
           edges' = simulateRealTimeTraffic(intervalEdges, t2[1], t2[2], js2)]_vars

\* the fields of an edge a tick is to leave alone
FrameOf(e) ==
  <<e.id, e.from, e.to, e.distance, e.duration, e.roadType, e.baseWeight, e.isBlocked>>

\* C16: simulateRealTimeTraffic yields as many edges as it is applied to, in
\* the same order, and each agrees with the edge it comes from in id, from, to,
\* distance, duration, roadType, baseWeight and isBlocked, blocked or not; so
\* does the outcome of applying it again to what it yielded.
C16_TickFrame ==
  [][\A t \in TrafficTimes : \A js \in JitterVectors(DOMAIN intervalEdges) :
       Tick(t[1], t[2], js) =>
         LET again == simulateRealTimeTraffic(edges', t[1], t[2], js)
         IN /\ Len(edges') = Len(intervalEdges)
            /\ \A i \in DOMAIN edges' : FrameOf(edges'[i]) = FrameOf(intervalEdges[i])
            /\ Len(again) = Len(intervalEdges)
            /\ \A i \in DOMAIN again : FrameOf(again[i]) = FrameOf(intervalEdges[i])]_vars

\* two edges after a rush-hour tick, one of them blocked and with a weight
\* above its base weight
C16_Witness ==
  /\ Len(edges) = 2
  /\ \E i \in DOMAIN edges :
       /\ edges[i].isBlocked
       /\ edges[i].trafficLevel = "high"
       /\ edges[i].currentWeight > edges[i].baseWeight

-----------------------------------------------------------------------------
(* Properties of the nearest-node lookup (NearestSpec) *)

\* the distance of the looked-up coordinate to the i-th node
LookupDistance(i) == Abs(nodes[i].location - nearest.location)

\* the indices of the nodes at the least distance
NearestIndices ==
  {i \in DOMAIN nodes : \A j \in DOMAIN nodes : LookupDistance(i) <= LookupDistance(j)}

\* C18: a lookup on a non-empty node list returns a node at the least distance
\* of all nodes, and of the nodes at that distance the first in the list.
C18_NearestFirst ==
  (nearest.looked /\ nodes # <<>>)
  => /\ nearest.outcome.returned = "node"
     /\ \E i \in NearestIndices :
          /\ nearest.outcome.node = nodes[i]
          /\ \A j \in NearestIndices : i <= j

\* a lookup with two nodes at the least distance, the first of them not the
\* first node of the list
C18_Witness ==
  /\ nearest.looked
  /\ Cardinality(NearestIndices) >= 2
  /\ 1 \notin NearestIndices
  /\ \E i \in NearestIndices : nearest.outcome.node = nodes[i]

\* C19: a lookup on an empty node list fails with EmptyGraphError.
C19_EmptyGraphError ==
  (nearest.looked /\ nodes = <<>>)
  => nearest.outcome.returned = "EmptyGraphError"

-----------------------------------------------------------------------------
(* Properties of a held graph value (SnapshotSpec) *)

\* C13: no store operation changes the nodes, the edges or the adjacency lists
\* of a graph value obtained earlier, and a search on it is the search of the
\* graph as it was obtained: the held adjacency index is the index of the held
\* nodes and edges.
C13_SnapshotImmutable ==
  [][snapshot.obtained =>
       /\ snapshot' = snapshot
       /\ snapshot \in {[obtained |-> TRUE, nodes |-> g.nodes, edges |-> g.edges,
                         adjacencyList |-> g.adjacencyList] : g \in MountGraphs}
       /\ result'.called =>
            \A a \in Algorithms :
              result'.by[a] =
                RunAlgorithm(a, [nodes |-> snapshot.nodes, edges |-> snapshot.edges,
                                 adjacencyList |->
                                   buildAdjacencyList(snapshot.nodes, snapshot.edges)],
                             result'.start, result'.end)]_vars

\* the store has replaced nodes, edges and index since the value was obtained,
\* and the route request on the held value has found its path
C13_Witness ==
  /\ snapshot.obtained
  /\ shared = {}
  /\ nodes # snapshot.nodes
  /\ edges # snapshot.edges
  /\ result.called
  /\ result.by["dijkstra"].path = <<"A", "B">>

-----------------------------------------------------------------------------
(* Properties of the administrator's operations (AdminSpec) *)

\* the edge list with the flag of every edge of the given id set
WithBlocked(es, edgeId, flag) ==
  [i \in DOMAIN es |->
     IF es[i].id = edgeId THEN [es[i] EXCEPT !.isBlocked = flag] ELSE es[i]]

\* C21 as stated: blockEdge and unblockEdge change only the isBlocked flag of
\* the edges with the given id (the node list, the other edges and the other
\* fields of the target stay, an unknown id changes nothing), and blockEdge
\* followed by unblockEdge on the same id restores the edge set, whatever the
\* flag of the edge was before.
C21_BlockUnblockRestores ==
  [][\A id \in AdminEdgeIds :
       /\ BlockEdge(id) => nodes' = nodes /\ edges' = WithBlocked(edges, id, TRUE)
       /\ UnblockEdge(id) => nodes' = nodes /\ edges' = WithBlocked(edges, id, FALSE)
       /\ ((BlockEdge(id) \/ UnblockEdge(id)) /\ \A i \in DOMAIN edges : edges[i].id # id)
            => edges' = edges
       /\ WithBlocked(WithBlocked(edges', id, TRUE), id, FALSE) = edges']_vars

\* C21: blockEdge and unblockEdge change only the isBlocked flag of the edges
\* with the given id (the node list, the other edges and the other fields of
\* the target stay, an unknown id changes nothing), and blockEdge followed by
\* unblockEdge on the same id restores the edge set when no edge of that id
\* was blocked before.
C21_BlockEdgeFrame ==
  [][\A id \in AdminEdgeIds :
       /\ BlockEdge(id) => nodes' = nodes /\ edges' = WithBlocked(edges, id, TRUE)
       /\ UnblockEdge(id) => nodes' = nodes /\ edges' = WithBlocked(edges, id, FALSE)
       /\ ((BlockEdge(id) \/ UnblockEdge(id)) /\ \A i \in DOMAIN edges : edges[i].id # id)
            => edges' = edges
       /\ (\A i \in DOMAIN edges' : edges'[i].id = id => ~edges'[i].isBlocked)
            => WithBlocked(WithBlocked(edges', id, TRUE), id, FALSE) = edges']_vars

\* two edges of different ids, the first blocked and the second not, the
\* weights of both raised by a tick before
C21_Witness ==
  /\ Len(edges) = 2
  /\ edges[1].id # edges[2].id
  /\ edges[1].isBlocked
  /\ ~edges[2].isBlocked
  /\ edges[1].currentWeight > edges[1].baseWeight
  /\ edges[2].currentWeight > edges[2].baseWeight

-----------------------------------------------------------------------------
(* Properties of the store under every operation (SnapshotSpec) *)

\* C22: in every state of the store, under every interleaving of refreshGraph,
\* the interval callback, updateTraffic, blockEdge, unblockEdge, addNode,
\* addEdge, removeNode and removeEdge, adjacencyList is the index that
\* buildAdjacencyList yields for the nodes and edges of that state, flags and
\* current weights included.
C22_AdjacencyRebuilt ==
  adjacencyList = buildAdjacencyList(nodes, edges)

\* a blocked edge whose weight a tick has raised is in the list of its from
\* node, after a node was removed
C22_Witness ==
  /\ Len(nodes) = 1
  /\ \E i \in DOMAIN edges :
       /\ edges[i].isBlocked
       /\ edges[i].currentWeight > edges[i].baseWeight
       /\ edges[i].from \in DOMAIN adjacencyList
       /\ \E k \in DOMAIN adjacencyList[edges[i].from] :
            adjacencyList[edges[i].from][k] = edges[i]

-----------------------------------------------------------------------------
(* Properties of the time brackets (BracketSpec) *)

Weekdays == 1..5
WeekendDays == {0, 6}

\* the bracket of a (day, hour) as the table of the specification gives it
BracketOf(day, hour) ==
  IF day \in Weekdays /\ hour \in (7..9) \cup (17..19) THEN "rush"
  ELSE IF day \in Weekdays /\ hour \in 10..16 THEN "midday"
  ELSE IF day \in WeekendDays /\ hour \in 12..18 THEN "weekend afternoon"
  ELSE "other"

BracketTier(day, hour) ==
  CASE BracketOf(day, hour) = "rush" -> "high"
    [] BracketOf(day, hour) = "midday" -> "medium"
    [] BracketOf(day, hour) = "weekend afternoon" -> "medium"
    [] OTHER -> "low"

BracketMultiplier(roadType, day, hour) ==
  CASE BracketOf(day, hour) = "rush" -> (IF roadType = "highway" THEN 1800 ELSE 1500)
    [] BracketOf(day, hour) = "midday" -> 1200
    [] BracketOf(day, hour) = "weekend afternoon" -> 1300
    [] OTHER -> 1000

\* C23: the time bracket of a tick determines tier and base multiplier: weekday
\* 7..9 or 17..19 is high with 1.8 for highway edges and 1.5 for the others,
\* weekday 10..16 is medium with 1.2, weekend 12..18 is medium with 1.3, every
\* other (day, hour) is low with 1.0.  A tick at (day, hour) whose random term
\* is zero stores the tier of the table and the base weight times the
\* multiplier of the table, rounded to a tenth.
C23_TimeBrackets ==
  [][\A day \in BracketDays, hour \in BracketHours :
       Tick(day, hour, [i \in DOMAIN intervalEdges |-> 0]) =>
         \A i \in DOMAIN edges' :
           /\ edges'[i].trafficLevel = BracketTier(day, hour)
           /\ edges'[i].currentWeight =
                RoundedWeight(intervalEdges[i].baseWeight,
                              BracketMultiplier(intervalEdges[i].roadType, day, hour))]_vars

\* after a weekday rush-hour tick: a highway edge weighs 1.8 times its base
\* weight, a street edge 1.5 times, both tiers high
C23_Witness ==
  \E i, j \in DOMAIN edges :
    /\ edges[i].roadType = "highway"
    /\ edges[j].roadType = "street"
    /\ edges[i].trafficLevel = "high"
    /\ edges[j].trafficLevel = "high"
    /\ 100 * edges[i].currentWeight = 180 * edges[i].baseWeight
    /\ 100 * edges[j].currentWeight = 150 * edges[j].baseWeight

-----------------------------------------------------------------------------
(* Properties of the search orders *)

NoRepeats(seq) == \A i, j \in DOMAIN seq : i # j => seq[i] # seq[j]

\* C24: visitedNodes of dijkstra is the settlement order: no node appears
\* twice, the tentative distances the nodes have when they are settled do not
\* decrease along visitedNodes, and when end is reachable from start end is the
\* last element of visitedNodes.
C24_SettlementOrder ==
  result.called =>
    LET st == DijkstraRun(Graph, result.start, result.end)
    IN /\ Returned(result.by["dijkstra"])
            => result.by["dijkstra"].visitedNodes = st.visitedNodes
       /\ NoRepeats(st.visitedNodes)
       /\ \A i \in 1..(Len(st.settledAt) - 1) : st.settledAt[i] <= st.settledAt[i + 1]
       /\ Reachable(result.start, result.end)
            => st.visitedNodes[Len(st.visitedNodes)] = result.end

\* the elements of a sequence in the order of their first occurrence
RECURSIVE FirstOccurrences(_)
FirstOccurrences(seq) ==
  IF seq = <<>> THEN <<>>
  ELSE LET front == FirstOccurrences(SubSeq(seq, 1, Len(seq) - 1))
           last == seq[Len(seq)]
       IN IF \E i \in DOMAIN front : front[i] = last THEN front ELSE Append(front, last)

\* C25: visitedNodes of bellmanFord holds exactly the nodes whose distance was
\* improved at least once during the passes over the non-blocked edges, each
\* of them once, in the order of their first improvement.
C25_ImprovedNodes ==
  result.called =>
    LET st == BellmanFordRun(Graph, result.start)
    IN /\ Returned(result.by["bellman-ford"])
            => result.by["bellman-ford"].visitedNodes = st.visitedNodes
       /\ NoRepeats(st.visitedNodes)
       /\ {st.visitedNodes[i] : i \in DOMAIN st.visitedNodes}
            = {st.improved[i] : i \in DOMAIN st.improved}
       /\ st.visitedNodes = FirstOccurrences(st.improved)
       /\ \A k \in DOMAIN st.improved :
            \E j \in DOMAIN edges : ~edges[j].isBlocked /\ edges[j].to = st.improved[k]

\* a search in which the distance of a node was improved twice
C25_Witness ==
  /\ result.called
  /\ Returned(result.by["bellman-ford"])
  /\ LET st == BellmanFordRun(Graph, result.start)
     IN /\ Len(st.visitedNodes) >= 1
        /\ Len(st.improved) > Len(st.visitedNodes)
        /\ result.by["bellman-ford"].visitedNodes = st.visitedNodes

\* the queue after one entry per edge from the k-th on was enqueued in edge
\* order, the entry of an edge having its id as node and its currentWeight as
\* priority
RECURSIVE EnqueueEdges(_, _, _)
EnqueueEdges(items, es, k) ==
  IF k > Len(es) THEN items
  ELSE EnqueueEdges(enqueue(items, es[k].id, es[k].currentWeight), es, k + 1)

\* the position in the edge list of the edge an entry was made from
EnqueuedAt(entry) == CHOOSE k \in DOMAIN edges : edges[k].id = entry.node

\* C26: the frontier is stable: the queue holds its entries by ascending
\* priority and, among equal priorities, in the order they were enqueued, so
\* dequeue (the head) is an entry of minimal priority and the earliest of
\* them, also after earlier entries were dequeued; a second run of a search on
\* the same graph yields the same result, visitedNodes included.
C26_StableFrontier ==
  /\ LET q == EnqueueEdges(<<>>, edges, 1)
         later == EnqueueEdges(Tail(EnqueueEdges(<<>>, SubSeq(edges, 1, 2), 1)), edges, 3)
     IN /\ Len(q) = Len(edges)
        /\ \A i, j \in DOMAIN q :
             i < j => \/ q[i].priority < q[j].priority
                      \/ /\ q[i].priority = q[j].priority
                         /\ EnqueuedAt(q[i]) < EnqueuedAt(q[j])
        /\ Len(edges) >= 2 =>
             \A i, j \in DOMAIN later :
               i < j => \/ later[i].priority < later[j].priority
                        \/ /\ later[i].priority = later[j].priority
                           /\ EnqueuedAt(later[i]) < EnqueuedAt(later[j])
  /\ result.called =>
       \A a \in Algorithms :
         result.by[a] = RunAlgorithm(a, Graph, result.start, result.end)

\* a search from a node with two outgoing edges of the same weight, both
\* neighbours settled, the one enqueued first before the other
C26_Witness ==
  /\ result.called
  /\ Returned(result.by["dijkstra"])
  /\ Len(result.by["dijkstra"].visitedNodes) = 3
  /\ \E i, j \in DOMAIN edges :
       /\ i < j
       /\ edges[i].from = result.start /\ edges[j].from = result.start
       /\ edges[i].to # edges[j].to
       /\ ~edges[i].isBlocked /\ ~edges[j].isBlocked
       /\ edges[i].currentWeight = edges[j].currentWeight
       /\ result.by["dijkstra"].visitedNodes = <<result.start, edges[i].to, edges[j].to>>

\* C27: every call of dijkstra, astar and bellmanFord returns, whatever the
\* graph held by the store, whether or not start and end are node ids, and
\* whatever the weights: the path reconstruction loop always ends.
C27_SearchesTerminate ==
  result.called => \A a \in Algorithms : Returned(result.by[a])

-----------------------------------------------------------------------------
(* Properties of the ticks between the administrator's operations (AdminSpec) *)

\* C28: the administrator's mutations survive the ticks: a tick is computed
\* from the edge list of the current state, so it keeps the number, the order
\* and the ids of the edges (an added edge stays, a removed edge stays absent)
\* and the isBlocked flag of each (a blocked edge stays blocked).
C28_TickKeepsMutations ==
  [][\A t \in TickTimes, j \in TickJitters :
       Tick(t[1], t[2], [i \in DOMAIN intervalEdges |-> j]) =>
         /\ Len(edges') = Len(edges)
         /\ \A i \in DOMAIN edges :
              /\ edges'[i].id = edges[i].id
              /\ edges'[i].isBlocked = edges[i].isBlocked
         /\ edges' = simulateRealTimeTraffic(edges, t[1], t[2], [i \in DOMAIN edges |-> j])]_vars

-----------------------------------------------------------------------------
(* Properties of the returned routes (SearchSpec) *)

\* C29: every non-empty path that dijkstra, astar or bellmanFord returns is a
\* route: it begins with start, ends with end, repeats no node id, and each of
\* its steps is a non-blocked step of the structure the algorithm searched (the
\* adjacency index for dijkstra and astar, graph.edges for bellmanFord).
C29_ValidRoute ==
  result.called =>
    \A a \in Algorithms :
      LET r == result.by[a]
      IN (Returned(r) /\ r.path # <<>>)
           => /\ r.path[1] = result.start
              /\ r.path[Len(r.path)] = result.end
              /\ NoRepeats(r.path)
              /\ \A i \in 1..(Len(r.path) - 1) :
                   <<r.path[i], r.path[i + 1]>> \in OpenSteps(a)

\* the three algorithms return a path over three nodes while an edge of the
\* graph is blocked
C29_Witness ==
  /\ result.called
  /\ \E i \in DOMAIN edges : edges[i].isBlocked
  /\ \A a \in Algorithms :
       /\ Returned(result.by[a])
       /\ Len(result.by[a].path) = 3

\* the current weights of the non-blocked steps from u to v in the structure
\* the algorithm searched
StepWeights(a, u, v) ==
  IF a = "bellman-ford"
  THEN {edges[i].currentWeight :
          i \in {j \in DOMAIN edges :
                   ~edges[j].isBlocked /\ edges[j].from = u /\ edges[j].to = v}}
  ELSE UNION {{adjacencyList[k][i].currentWeight :
                  i \in {j \in DOMAIN adjacencyList[k] :
                           /\ ~adjacencyList[k][j].isBlocked
                           /\ adjacencyList[k][j].from = u
                           /\ adjacencyList[k][j].to = v}} :
              k \in DOMAIN adjacencyList}

\* the sums of current weights along the steps of a path from its i-th node on
RECURSIVE PathSums(_, _, _)
PathSums(a, path, i) ==
  IF i >= Len(path) THEN {0}
  ELSE {w + rest : w \in StepWeights(a, path[i], path[i + 1]),
                   rest \in PathSums(a, path, i + 1)}

\* C30: whenever an algorithm returns a non-empty path, totalDistance is finite
\* and is the sum of the current weights of the edges along the path, a sum of
\* 0 included, and estimatedTime is round(totalDistance * 1.2); totalDistance
\* is Infinity only with the empty path.
C30_TotalDistance ==
  result.called =>
    \A a \in Algorithms :
      LET r == result.by[a]
      IN Returned(r) =>
           /\ r.path # <<>> =>
                /\ r.totalDistance # Infinity
                /\ r.totalDistance \in PathSums(a, r.path, 1)
                /\ r.estimatedTime = RoundTimes12(r.totalDistance)
           /\ r.totalDistance = Infinity => r.path = <<>>

====
